---------------------------- MODULE Spec2Model ----------------------------
(***************************************************************************)
(* A model of apply_my_lists (src/apply_my_lists.go): the program reads a  *)
(* large block list into per-TLD sets, merges a personal blacklist,        *)
(* applies a personal whitelist with one goroutine per entry, and then     *)
(* sends every domain that is not a sub-domain of another one through the  *)
(* "minimal" channel to a collector goroutine that writes the output.      *)
(*                                                                         *)
(* Strings are sequences of one-character strings, so that Split and       *)
(* HasSuffix work on characters exactly as the Go functions do.            *)
(***************************************************************************)
EXTENDS Naturals, Sequences, FiniteSets, TLC

\* ------------------------------------------------------------------ bounds

\* Longest block list file (lines), personal blacklist and personal whitelist.
MaxBlock == 2
MaxBlack == 1
MaxWhite == 2
\* Longest raw line of the suffix-test specification SpecSuffix.
MaxLineLen == 4
\* Longest block list of the filter specification SpecFilter.
MaxFilter == 4

\* ----------------------------------------------------------------- strings

Dot == "."

\* strings.HasSuffix(s, suffix)
HasSuffix(s, suffix) ==
    /\ Len(suffix) <= Len(s)
    /\ SubSeq(s, Len(s) - Len(suffix) + 1, Len(s)) = suffix

RECURSIVE SplitFrom(_, _, _)
\* The components of s[i..] with "cur" the component collected so far.
SplitFrom(s, i, cur) ==
    IF i > Len(s) THEN <<cur>>
    ELSE IF s[i] = Dot THEN <<cur>> \o SplitFrom(s, i + 1, <<>>)
    ELSE SplitFrom(s, i + 1, Append(cur, s[i]))

\* strings.Split(s, ".")
Split(s) == SplitFrom(s, 1, <<>>)

\* Mutant of Canon: the name as it stands in the file, without the ".".
CanonBare(line) == line

\* readList and readDomains prepend "." to every domain name they read.
Canon(line) == <<Dot>> \o line

\* getTLD returns the last two components joined by ".".
getTLD(domain) ==
    LET components == Split(domain)
        length == Len(components)
    IN components[length - 1] \o <<Dot>> \o components[length]

\* fmt.Sprintf("server=/%s/\n", domain[1:]) and ("server=/%s/#\n", domain[1:]):
\* an output line is its kind and the domain without its leading character.
BlockLine(domain) == [kind |-> "block", name |-> Tail(domain)]
UnblockLine(domain) == [kind |-> "unblock", name |-> Tail(domain)]

\* ------------------------------------------------------------------ inputs

\* The domain names that occur in the input files: a single label (c), a
\* two-label domain (b.c), a sub-domain of it (a.b.c), and a domain whose
\* first label merely ends like that sub-domain's first label (aa.b.c).
Names ==
    << <<"c">>,
       <<"b", Dot, "c">>,
       <<"a", Dot, "b", Dot, "c">>,
       <<"a", "a", Dot, "b", Dot, "c">> >>

\* Lists of at most n names.  A list is read into a set (block list,
\* blacklist) or handed to goroutines that run concurrently (whitelist), so
\* one order is enumerated for every multiset of lines.
Lists(n) ==
    UNION { { [i \in 1..k |-> Names[ix[i]]] :
                ix \in { f \in [1..k -> 1..Len(Names)] :
                           \A i \in 1..k : \A j \in 1..k : i <= j => f[i] <= f[j] } } :
            k \in 0..n }

\* ------------------------------------------------------------------- state

VARIABLES
    blockFile,      \* lines of /etc/hosts-blacklist (the part after "0.0.0.0 ")
    blackFile,      \* lines of /tmp/my_blacklist
    whiteFile,      \* lines of /tmp/my_whitelist
    blackErr,       \* os.Open of /tmp/my_blacklist fails, the file being there
    whiteErr,       \* os.Open of /tmp/my_whitelist fails, the file being there
    mainpc,         \* position of main
    domainsRaw,     \* TLD -> set of domains
    merged,         \* history: domainsRaw when applyBlacklist returned
    tldLocks,       \* TLD -> lock object
    tldLocksLock,   \* holder of tldLocksLock (0: free)
    rwlocks,        \* lock object -> [w: writer or 0, r: set of readers]
    whitelist,      \* the "whitelist" map (a set)
    whitelistLock,  \* holder of whitelistLock (0: free)
    task,           \* applyWhitelistEntry goroutines, by index into whiteDomains
    fatal,          \* the Go runtime has aborted the process
    domains,        \* result of cookDomains: a sequence of sorted slices
    worker,         \* checkDomain goroutines, by domain: "run", "send", "done"
    closed,         \* the minimal channel has been closed
    collector,      \* position of the collector goroutine
    written,        \* whitelist entries the collector's range has yielded
    out,            \* lines written to /etc/servers-blacklist
    numberMinimal,  \* counter of the collector
    sufA, sufB, sufRes, \* SpecSuffix: two raw lines and the tests' results
    fltFile,        \* SpecFilter: lines of the block list
    fltRun          \* SpecFilter: what the two runs of the filter gave

vars == << blockFile, blackFile, whiteFile, blackErr, whiteErr, mainpc, domainsRaw, merged, tldLocks,
           tldLocksLock, rwlocks, whitelist, whitelistLock, task, fatal, domains,
           worker, closed, collector, written, out, numberMinimal,
           sufA, sufB, sufRes, fltFile, fltRun >>

inputVars == << blockFile, blackFile, whiteFile, blackErr, whiteErr >>
lockVars == << tldLocks, tldLocksLock, rwlocks, whitelistLock >>
filterVars == << domains, worker, closed, collector, written, out, numberMinimal >>
sufVars == << sufA, sufB, sufRes, fltFile, fltRun >>

\* The nil map, written as a sequence so that it compares with a TLD.
NoMap == <<"nil">>
EmptyMap == [k \in {} |-> {}]

\* The set of all domains in all partitions.
AllDomains(raw) == UNION { raw[k] : k \in DOMAIN raw }


\* -------------------------------------------------------------- partitions

\* domainsRaw[tld][domain] = true, creating the set of a new TLD first
\* (readDomains and applyBlacklist).
Insert(raw, domain) ==
    LET tld == getTLD(domain)
    IN [k \in DOMAIN raw \cup {tld} |->
          IF k = tld
          THEN (IF k \in DOMAIN raw THEN raw[k] ELSE {}) \cup {domain}
          ELSE raw[k]]

RECURSIVE InsertAll(_, _, _)
\* The loop over the lines of a file, from line i on.
InsertAll(raw, lines, i) ==
    IF i > Len(lines) THEN raw
    ELSE InsertAll(Insert(raw, Canon(lines[i])), lines, i + 1)

\* Mutant of Delete: the key is deleted from a copy, not from the shared map.
DeleteFromCopy(raw, tld, subdomain) == raw

\* delete(domainsRaw[tld], subdomain)
Delete(raw, tld, subdomain) ==
    [raw EXCEPT ![tld] = @ \ {subdomain}]

\* Mutant of Removes: the names are compared without their leading ".".
RemovesBare(entry, subdomain) == HasSuffix(Tail(subdomain), Tail(entry))

\* The test of applyWhitelistEntry that removes subdomain for entry.
Removes(entry, subdomain) == HasSuffix(subdomain, entry)

\* The test of applyWhitelistEntry that puts entry on the whitelist.
Shadows(entry, subdomain) == HasSuffix(entry, subdomain)

\* Mutant of IsSubdomainOf: a domain is not told from itself.
IsSubdomainOrSelf(domain, otherDomain) == HasSuffix(domain, otherDomain)

\* The test of checkDomain that drops domain because of otherDomain.
IsSubdomainOf(domain, otherDomain) ==
    HasSuffix(domain, otherDomain) /\ domain # otherDomain

RECURSIVE ScanReturnsAtLonger(_, _, _)
\* Mutant of ScanFrom: at the first longer candidate the loop returns
\* without sending instead of breaking.
ScanReturnsAtLonger(subdomains, domain, i) ==
    IF i > Len(subdomains) THEN FALSE
    ELSE IF Len(subdomains[i]) > Len(domain) THEN TRUE
    ELSE IF IsSubdomainOf(domain, subdomains[i]) THEN TRUE
    ELSE ScanReturnsAtLonger(subdomains, domain, i + 1)

RECURSIVE ScanFrom(_, _, _)
\* The loop of checkDomain from index i on: TRUE when it returns without
\* sending, FALSE when it breaks or runs to its end and sends.
ScanFrom(subdomains, domain, i) ==
    IF i > Len(subdomains) THEN FALSE
    ELSE IF Len(subdomains[i]) > Len(domain) THEN FALSE
    ELSE IF IsSubdomainOf(domain, subdomains[i]) THEN TRUE
    ELSE ScanFrom(subdomains, domain, i + 1)

Range(f) == { f[x] : x \in DOMAIN f }

\* Mutant of SortedSlices: the keys in any order, as maps.Keys returns them.
UnsortedSlices(S) ==
    { s \in [1..Cardinality(S) -> S] :
        \A i \in DOMAIN s : \A j \in DOMAIN s : i # j => s[i] # s[j] }

\* The orders slices.SortFunc(by length) may leave the keys of a set in.
SortedSlices(S) ==
    { s \in [1..Cardinality(S) -> S] :
        /\ \A i \in DOMAIN s : \A j \in DOMAIN s : i # j => s[i] # s[j]
        /\ \A i \in DOMAIN s : \A j \in DOMAIN s : i < j => Len(s[i]) <= Len(s[j]) }

\* The results cookDomains may return: the partitions in any order (the
\* order of a range over a map), each sorted by length.
Cooked(raw) ==
    LET n == Cardinality(DOMAIN raw)
        orders == { p \in [1..n -> DOMAIN raw] :
                      \A i \in 1..n : \A j \in 1..n : i # j => p[i] # p[j] }
    IN UNION { { d \in [1..n -> UNION { SortedSlices(raw[k]) : k \in DOMAIN raw }] :
                   \A i \in 1..n : d[i] \in SortedSlices(raw[p[i]]) } :
               p \in orders }

\* The domains that the checkDomain goroutines started for the slices send
\* on the minimal channel.
Emitted(cooked) ==
    UNION { { d \in Range(cooked[p]) : ~ScanFrom(cooked[p], d, 1) } :
            p \in DOMAIN cooked }

\* The partitions of a set of domains: each in the set of its TLD.
PartitionsOf(S) ==
    [k \in { getTLD(d) : d \in S } |-> { d \in S : getTLD(d) = k }]

\* ----------------------------------------------------------------- initial

\* SpecSuffix: the tests have not been applied yet.
NoResult == [tested |-> FALSE, dropped |-> FALSE, removes |-> FALSE, shadows |-> FALSE]

\* SpecFilter: the filter has not run yet.
NoRun == [done |-> FALSE, raw |-> EmptyMap, domains |-> <<>>, first |-> {},
          second |-> {}]

\* A list file that is missing reads as the empty list; of a list file that
\* cannot be opened nothing is read, so no lines are drawn for it.
Init ==
    /\ blockFile \in Lists(MaxBlock)
    /\ blackErr \in BOOLEAN
    /\ whiteErr \in BOOLEAN
    /\ blackFile \in IF blackErr THEN {<<>>} ELSE Lists(MaxBlack)
    /\ whiteFile \in IF whiteErr THEN {<<>>} ELSE Lists(MaxWhite)
    /\ mainpc = "readDomains"
    /\ domainsRaw = EmptyMap
    /\ merged = EmptyMap
    /\ tldLocks = EmptyMap
    /\ tldLocksLock = 0
    /\ rwlocks = <<>>
    /\ whitelist = {}
    /\ whitelistLock = 0
    /\ task = <<>>
    /\ fatal = FALSE
    /\ domains = <<>>
    /\ worker = EmptyMap
    /\ closed = FALSE
    /\ collector = "unborn"
    /\ written = {}
    /\ out = <<>>
    /\ numberMinimal = 0
    /\ sufA = <<>>
    /\ sufB = <<>>
    /\ sufRes = NoResult
    /\ fltFile = <<>>
    /\ fltRun = NoRun

\* -------------------------------------------------------------------- main

\* readDomains: every line's domain is put into the set of its TLD.
ReadDomains ==
    /\ ~fatal
    /\ mainpc = "readDomains"
    /\ domainsRaw' = InsertAll(EmptyMap, blockFile, 1)
    /\ mainpc' = "applyBlacklist"
    /\ UNCHANGED << inputVars, merged, lockVars, whitelist, task, fatal,
                    filterVars, sufVars >>

\* applyBlacklist: readList, then the same insertion for every entry.  When
\* readList fails, applyBlacklist returns the error before it inserts
\* anything; main does not look at what applyBlacklist returns.
ApplyBlacklist ==
    /\ ~fatal
    /\ mainpc = "applyBlacklist"
    /\ domainsRaw' = IF blackErr THEN domainsRaw
                     ELSE InsertAll(domainsRaw, blackFile, 1)
    /\ merged' = domainsRaw'
    /\ mainpc' = "applyWhitelist"
    /\ UNCHANGED << inputVars, lockVars, whitelist, task, fatal, filterVars, sufVars >>

\* The local variables of a goroutine that has not started or has returned.
NoLocals == [lock |-> 0, subdomains |-> NoMap, seen |-> {}, subdomain |-> <<>>,
             needsOnWhitelist |-> FALSE]

\* applyWhitelist up to wg.Wait: readList, then one goroutine per entry.
\* When readList fails, applyWhitelist returns the error at once; main does
\* not look at what applyWhitelist returns and calls cookDomains.
ApplyWhitelist ==
    /\ ~fatal
    /\ mainpc = "applyWhitelist"
    /\ task' = [i \in 1..Len(whiteFile) |->
                  [pc |-> "start", entry |-> Canon(whiteFile[i])] @@ NoLocals]
    /\ mainpc' = IF whiteErr THEN "cookDomains" ELSE "wgWait"
    /\ UNCHANGED << inputVars, domainsRaw, merged, lockVars, whitelist, fatal,
                    filterVars, sufVars >>

\* wg.Wait() of applyWhitelist returns when every goroutine has called Done.
TasksDone == \A i \in DOMAIN task : task[i].pc = "done"

\* Mutant of WgWait: applyWhitelist returns without waiting.
WgWaitNoWait ==
    /\ ~fatal
    /\ mainpc = "wgWait"
    /\ mainpc' = "cookDomains"
    /\ UNCHANGED << inputVars, domainsRaw, merged, lockVars, whitelist, task, fatal,
                    filterVars, sufVars >>

WgWait ==
    /\ ~fatal
    /\ mainpc = "wgWait"
    /\ TasksDone
    /\ mainpc' = "cookDomains"
    /\ UNCHANGED << inputVars, domainsRaw, merged, lockVars, whitelist, task, fatal,
                    filterVars, sufVars >>


\* ----------------------------------------------------- applyWhitelistEntry

SetTask(i, fields) == [task EXCEPT ![i] = fields @@ @]

\* Mutant of LocksLock: the goroutine goes on without the lock being free.
LocksLockNoExclusion(i) ==
    /\ ~fatal
    /\ task[i].pc = "start"
    /\ tldLocksLock' = i
    /\ task' = SetTask(i, [pc |-> "lookup"])
    /\ UNCHANGED << inputVars, mainpc, domainsRaw, merged, tldLocks, rwlocks,
                    whitelist, whitelistLock, fatal, filterVars, sufVars >>

\* tldLocksLock.Lock()
LocksLock(i) ==
    /\ ~fatal
    /\ task[i].pc = "start"
    /\ tldLocksLock = 0
    /\ tldLocksLock' = i
    /\ task' = SetTask(i, [pc |-> "lookup"])
    /\ UNCHANGED << inputVars, mainpc, domainsRaw, merged, tldLocks, rwlocks,
                    whitelist, whitelistLock, fatal, filterVars, sufVars >>

\* lock, exists := tldLocks[tld]: the lock of the TLD, or nil (0) and
\* exists = false when the map has none.
LocksLookup(i) ==
    LET tld == getTLD(task[i].entry)
    IN /\ ~fatal
       /\ task[i].pc = "lookup"
       /\ task' = SetTask(i, [pc |-> "store",
                              lock |-> IF tld \in DOMAIN tldLocks
                                       THEN tldLocks[tld] ELSE 0])
       /\ UNCHANGED << inputVars, mainpc, domainsRaw, merged, lockVars, whitelist,
                       fatal, filterVars, sufVars >>

\* if !exists { lock = new(sync.RWMutex); tldLocks[tld] = lock };
\* tldLocksLock.Unlock()
LocksStore(i) ==
    LET tld == getTLD(task[i].entry)
        exists == task[i].lock # 0
        lock == IF exists THEN task[i].lock ELSE Len(rwlocks) + 1
    IN /\ ~fatal
       /\ task[i].pc = "store"
       /\ rwlocks' = IF exists THEN rwlocks ELSE Append(rwlocks, [w |-> 0, r |-> {}])
       /\ tldLocks' = IF exists THEN tldLocks
                      ELSE [k \in DOMAIN tldLocks \cup {tld} |->
                              IF k = tld THEN lock ELSE tldLocks[k]]
       /\ tldLocksLock' = 0
       /\ task' = SetTask(i, [pc |-> "rlock", lock |-> lock])
       /\ UNCHANGED << inputVars, mainpc, domainsRaw, merged, whitelist,
                       whitelistLock, fatal, filterVars, sufVars >>

\* lock.RLock()
RLock(i) ==
    /\ ~fatal
    /\ task[i].pc = "rlock"
    /\ rwlocks[task[i].lock].w = 0
    /\ rwlocks' = [rwlocks EXCEPT ![task[i].lock].r = @ \cup {i}]
    /\ task' = SetTask(i, [pc |-> "subdomains"])
    /\ UNCHANGED << inputVars, mainpc, domainsRaw, merged, tldLocks, tldLocksLock,
                    whitelist, whitelistLock, fatal, filterVars, sufVars >>

\* subdomains := domainsRaw[tld]; lock.RUnlock().  A Go map value is a
\* reference: subdomains is the partition's own map (named here by its
\* TLD), or nil when the TLD has no partition.
TakeSubdomains(i) ==
    LET tld == getTLD(task[i].entry)
    IN /\ ~fatal
       /\ task[i].pc = "subdomains"
       /\ rwlocks' = [rwlocks EXCEPT ![task[i].lock].r = @ \ {i}]
       /\ task' = SetTask(i, [pc |-> "range",
                              subdomains |-> IF tld \in DOMAIN domainsRaw
                                             THEN tld ELSE NoMap])
       /\ UNCHANGED << inputVars, mainpc, domainsRaw, merged, tldLocks, tldLocksLock,
                       whitelist, whitelistLock, fatal, filterVars, sufVars >>

\* The keys a range over task i's map can still produce: those now in the
\* map that it has not produced yet.
Remaining(i) ==
    IF task[i].subdomains = NoMap THEN {}
    ELSE domainsRaw[task[i].subdomains] \ task[i].seen

\* Mutant of RangeNext: an ancestor marks the entry only as long as the
\* goroutine has not removed a domain.
RangeNextUnlessRemoved(i) ==
    /\ ~fatal
    /\ task[i].pc = "range"
    /\ \E subdomain \in Remaining(i) :
         task' = SetTask(i,
            IF Removes(task[i].entry, subdomain)
            THEN [pc |-> "lock", subdomain |-> subdomain,
                  seen |-> task[i].seen \cup {subdomain}]
            ELSE [pc |-> "range",
                  seen |-> task[i].seen \cup {subdomain},
                  needsOnWhitelist |->
                      \/ task[i].needsOnWhitelist
                      \/ (/\ \A d \in task[i].seen : ~Removes(task[i].entry, d)
                          /\ Shadows(task[i].entry, subdomain))])
    /\ UNCHANGED << inputVars, mainpc, domainsRaw, merged, lockVars, whitelist,
                    fatal, filterVars, sufVars >>

\* One iteration of "for subdomain := range subdomains" up to the point
\* where it takes the write lock or ends.
RangeNext(i) ==
    /\ ~fatal
    /\ task[i].pc = "range"
    /\ \E subdomain \in Remaining(i) :
         task' = SetTask(i,
            IF Removes(task[i].entry, subdomain)
            THEN [pc |-> "lock", subdomain |-> subdomain,
                  seen |-> task[i].seen \cup {subdomain}]
            ELSE [pc |-> "range",
                  seen |-> task[i].seen \cup {subdomain},
                  needsOnWhitelist |->
                      \/ task[i].needsOnWhitelist
                      \/ (~task[i].needsOnWhitelist
                            /\ Shadows(task[i].entry, subdomain))])
    /\ UNCHANGED << inputVars, mainpc, domainsRaw, merged, lockVars, whitelist,
                    fatal, filterVars, sufVars >>

\* lock.Lock()
Lock(i) ==
    /\ ~fatal
    /\ task[i].pc = "lock"
    /\ rwlocks[task[i].lock].w = 0
    /\ rwlocks[task[i].lock].r = {}
    /\ rwlocks' = [rwlocks EXCEPT ![task[i].lock].w = i]
    /\ task' = SetTask(i, [pc |-> "delete"])
    /\ UNCHANGED << inputVars, mainpc, domainsRaw, merged, tldLocks, tldLocksLock,
                    whitelist, whitelistLock, fatal, filterVars, sufVars >>

\* delete(domainsRaw[tld], subdomain); lock.Unlock()
DeleteUnlock(i) ==
    /\ ~fatal
    /\ task[i].pc = "delete"
    /\ domainsRaw' = Delete(domainsRaw, getTLD(task[i].entry), task[i].subdomain)
    /\ rwlocks' = [rwlocks EXCEPT ![task[i].lock].w = 0]
    /\ task' = SetTask(i, [pc |-> "range", subdomain |-> <<>>])
    /\ UNCHANGED << inputVars, mainpc, merged, tldLocks, tldLocksLock, whitelist,
                    whitelistLock, fatal, filterVars, sufVars >>

\* Task j is inside lock.Lock() ... lock.Unlock(), writing the map that
\* task i ranges over without holding the lock.
WritesUnder(i, j) ==
    /\ j # i
    /\ task[i].pc = "range"
    /\ task[i].subdomains # NoMap
    /\ task[j].pc = "delete"
    /\ getTLD(task[j].entry) = task[i].subdomains

\* The range of task i runs while another goroutine writes the same map: a
\* data race.  Besides the two orders of the iteration and the delete that
\* RangeNext and DeleteUnlock give, the Go runtime may detect it and abort
\* ("fatal error: concurrent map iteration and map write").
RaceFatal(i) ==
    /\ ~fatal
    /\ \E j \in DOMAIN task : WritesUnder(i, j)
    /\ fatal' = TRUE
    /\ UNCHANGED << inputVars, mainpc, domainsRaw, merged, lockVars, whitelist,
                    task, filterVars, sufVars >>

\* The range has ended: whitelistLock.Lock() if needsOnWhitelist, else return.
RangeEnd(i) ==
    /\ ~fatal
    /\ task[i].pc = "range"
    /\ Remaining(i) = {}
    /\ task' = SetTask(i, IF task[i].needsOnWhitelist
                           THEN [pc |-> "whitelistLock"]
                           ELSE [pc |-> "done"] @@ NoLocals)
    /\ UNCHANGED << inputVars, mainpc, domainsRaw, merged, lockVars, whitelist,
                    fatal, filterVars, sufVars >>

\* whitelistLock.Lock()
WhitelistLock(i) ==
    /\ ~fatal
    /\ task[i].pc = "whitelistLock"
    /\ whitelistLock = 0
    /\ whitelistLock' = i
    /\ task' = SetTask(i, [pc |-> "whitelist"])
    /\ UNCHANGED << inputVars, mainpc, domainsRaw, merged, tldLocks, tldLocksLock,
                    rwlocks, whitelist, fatal, filterVars, sufVars >>

\* whitelist[entry] = true; whitelistLock.Unlock(); return
WhitelistSet(i) ==
    /\ ~fatal
    /\ task[i].pc = "whitelist"
    /\ whitelist' = whitelist \cup {task[i].entry}
    /\ whitelistLock' = 0
    /\ task' = SetTask(i, [pc |-> "done"] @@ NoLocals)
    /\ UNCHANGED << inputVars, mainpc, domainsRaw, merged, tldLocks, tldLocksLock,
                    rwlocks, fatal, filterVars, sufVars >>

\* ------------------------------------------- cookDomains, checkDomain, main

\* domains = cookDomains(domainsRaw)
CookDomains ==
    /\ ~fatal
    /\ mainpc = "cookDomains"
    /\ domains' \in Cooked(domainsRaw)
    /\ mainpc' = "collector"
    /\ UNCHANGED << inputVars, domainsRaw, merged, lockVars, whitelist, task, fatal,
                    worker, closed, collector, written, out, numberMinimal, sufVars >>

\* minimal := make(chan string); wgCollect.Add(1); go func() {...}()
StartCollector ==
    /\ ~fatal
    /\ mainpc = "collector"
    /\ collector' = "create"
    /\ mainpc' = "workers"
    /\ UNCHANGED << inputVars, domainsRaw, merged, lockVars, whitelist, task, fatal,
                    domains, worker, closed, written, out, numberMinimal, sufVars >>

\* The loops that start one checkDomain goroutine per domain of every slice.
StartWorkers ==
    /\ ~fatal
    /\ mainpc = "workers"
    /\ worker' = [d \in UNION { Range(domains[p]) : p \in DOMAIN domains } |->
                    [pc |-> "run",
                     subdomains |-> CHOOSE s \in Range(domains) : d \in Range(s)]]
    /\ mainpc' = "wgWait2"
    /\ UNCHANGED << inputVars, domainsRaw, merged, lockVars, whitelist, task, fatal,
                    domains, closed, collector, written, out, numberMinimal, sufVars >>

\* checkDomain up to the send: the scan of the sorted slice.
CheckDomain(d) ==
    /\ ~fatal
    /\ worker[d].pc = "run"
    /\ worker' = [worker EXCEPT ![d].pc =
                    IF ScanFrom(worker[d].subdomains, d, 1) THEN "done" ELSE "send"]
    /\ UNCHANGED << inputVars, mainpc, domainsRaw, merged, lockVars, whitelist, task,
                    fatal, domains, closed, collector, written, out, numberMinimal,
                    sufVars >>

\* f, err := os.Create("/etc/servers-blacklist"); w := bufio.NewWriter(f)
CollectorCreate ==
    /\ ~fatal
    /\ collector = "create"
    /\ collector' = "receive"
    /\ UNCHANGED << inputVars, mainpc, domainsRaw, merged, lockVars, whitelist, task,
                    fatal, domains, worker, closed, written, out, numberMinimal,
                    sufVars >>

\* "minimal <- domain" meets "for domain := range minimal": the channel is
\* unbuffered, so the send and the receive are one step; the collector
\* writes the line, the worker returns (wg.Done).
Send(d) ==
    /\ ~fatal
    /\ worker[d].pc = "send"
    /\ collector = "receive"
    /\ ~closed
    /\ out' = Append(out, BlockLine(d))
    /\ numberMinimal' = numberMinimal + 1
    /\ worker' = [worker EXCEPT ![d].pc = "done"]
    /\ UNCHANGED << inputVars, mainpc, domainsRaw, merged, lockVars, whitelist, task,
                    fatal, domains, closed, collector, written, sufVars >>

\* wg.Wait() of main returns when every checkDomain has called Done.
WorkersDone == \A d \in DOMAIN worker : worker[d].pc = "done"

\* Mutant of CloseMinimal: the channel is closed without wg.Wait().
CloseMinimalEarly ==
    /\ ~fatal
    /\ mainpc = "wgWait2"
    /\ closed' = TRUE
    /\ mainpc' = "wgCollectWait"
    /\ UNCHANGED << inputVars, domainsRaw, merged, lockVars, whitelist, task, fatal,
                    domains, worker, collector, written, out, numberMinimal, sufVars >>

\* wg.Wait(); close(minimal)
CloseMinimal ==
    /\ ~fatal
    /\ mainpc = "wgWait2"
    /\ WorkersDone
    /\ closed' = TRUE
    /\ mainpc' = "wgCollectWait"
    /\ UNCHANGED << inputVars, domainsRaw, merged, lockVars, whitelist, task, fatal,
                    domains, worker, collector, written, out, numberMinimal, sufVars >>

\* Mutant of CollectorDrained: the collector leaves the receive loop while
\* the channel is still open.
CollectorDrainedEarly ==
    /\ ~fatal
    /\ collector = "receive"
    /\ collector' = "whitelist"
    /\ UNCHANGED << inputVars, mainpc, domainsRaw, merged, lockVars, whitelist, task,
                    fatal, domains, worker, closed, written, out, numberMinimal,
                    sufVars >>

\* The range over minimal ends once the channel is closed.
CollectorDrained ==
    /\ ~fatal
    /\ collector = "receive"
    /\ closed
    /\ collector' = "whitelist"
    /\ UNCHANGED << inputVars, mainpc, domainsRaw, merged, lockVars, whitelist, task,
                    fatal, domains, worker, closed, written, out, numberMinimal,
                    sufVars >>

\* One iteration of "for domain := range whitelist".
CollectorWhitelist ==
    /\ ~fatal
    /\ collector = "whitelist"
    /\ \E domain \in whitelist \ written :
         /\ out' = Append(out, UnblockLine(domain))
         /\ written' = written \cup {domain}
    /\ UNCHANGED << inputVars, mainpc, domainsRaw, merged, lockVars, whitelist, task,
                    fatal, domains, worker, closed, collector, numberMinimal, sufVars >>

\* The range over whitelist has ended: flush, close the file, wgCollect.Done.
CollectorDone ==
    /\ ~fatal
    /\ collector = "whitelist"
    /\ whitelist \ written = {}
    /\ collector' = "done"
    /\ UNCHANGED << inputVars, mainpc, domainsRaw, merged, lockVars, whitelist, task,
                    fatal, domains, worker, closed, written, out, numberMinimal,
                    sufVars >>

\* wgCollect.Wait(), then main returns.
Finish ==
    /\ ~fatal
    /\ mainpc = "wgCollectWait"
    /\ collector = "done"
    /\ mainpc' = "finished"
    /\ UNCHANGED << inputVars, domainsRaw, merged, lockVars, whitelist, task, fatal,
                    filterVars, sufVars >>

Next ==
    \/ ReadDomains
    \/ ApplyBlacklist
    \/ ApplyWhitelist
    \/ \E i \in DOMAIN task : LocksLock(i)
    \/ \E i \in DOMAIN task : LocksLookup(i)
    \/ \E i \in DOMAIN task : LocksStore(i)
    \/ \E i \in DOMAIN task : RLock(i)
    \/ \E i \in DOMAIN task : TakeSubdomains(i)
    \/ \E i \in DOMAIN task : RangeNext(i)
    \/ \E i \in DOMAIN task : Lock(i)
    \/ \E i \in DOMAIN task : DeleteUnlock(i)
    \/ \E i \in DOMAIN task : RaceFatal(i)
    \/ \E i \in DOMAIN task : RangeEnd(i)
    \/ \E i \in DOMAIN task : WhitelistLock(i)
    \/ \E i \in DOMAIN task : WhitelistSet(i)
    \/ WgWait
    \/ CookDomains
    \/ StartCollector
    \/ StartWorkers
    \/ \E d \in DOMAIN worker : CheckDomain(d)
    \/ CollectorCreate
    \/ \E d \in DOMAIN worker : Send(d)
    \/ CloseMinimal
    \/ CollectorDrained
    \/ CollectorWhitelist
    \/ CollectorDone
    \/ Finish

Spec == Init /\ [][Next]_vars

\* Every step but the abort by the Go runtime: a goroutine that can take a
\* step is scheduled in the end, while the runtime may or may not notice a
\* data race.
Scheduled == Next /\ fatal' = fatal

\* The program under a fair scheduler.
SpecFair == Spec /\ WF_vars(Scheduled)


\* ------------------------------------------------- the suffix tests alone

Alphabet == {"a", "b", Dot}

\* The raw lines of at most n characters (readList skips empty lines).
Lines(n) == UNION { [1..k -> Alphabet] : k \in 1..n }

InitSuffix ==
    /\ blockFile = <<>>
    /\ blackFile = <<>>
    /\ whiteFile = <<>>
    /\ blackErr = FALSE
    /\ whiteErr = FALSE
    /\ mainpc = "readDomains"
    /\ domainsRaw = EmptyMap
    /\ merged = EmptyMap
    /\ tldLocks = EmptyMap
    /\ tldLocksLock = 0
    /\ rwlocks = <<>>
    /\ whitelist = {}
    /\ whitelistLock = 0
    /\ task = <<>>
    /\ fatal = FALSE
    /\ domains = <<>>
    /\ worker = EmptyMap
    /\ closed = FALSE
    /\ collector = "unborn"
    /\ written = {}
    /\ out = <<>>
    /\ numberMinimal = 0
    /\ sufA \in Lines(MaxLineLen)
    /\ sufB \in Lines(MaxLineLen)
    /\ sufRes = NoResult
    /\ fltFile = <<>>
    /\ fltRun = NoRun

\* Both lines are read (Canon); checkDomain scans a sorted slice of the two
\* for sufA, and applyWhitelistEntry meets subdomain sufA for entry sufB.
SuffixTests ==
    /\ ~sufRes.tested
    /\ \E subdomains \in SortedSlices({Canon(sufA), Canon(sufB)}) :
         sufRes' = [tested |-> TRUE,
                    dropped |-> ScanFrom(subdomains, Canon(sufA), 1),
                    removes |-> Removes(Canon(sufB), Canon(sufA)),
                    shadows |-> Shadows(Canon(sufA), Canon(sufB))]
    /\ UNCHANGED << inputVars, mainpc, domainsRaw, merged, lockVars, whitelist, task,
                    fatal, filterVars, sufA, sufB, fltFile, fltRun >>

SpecSuffix == InitSuffix /\ [][SuffixTests]_vars

\* ------------------------------------- cookDomains and checkDomain alone

\* The names of the block list: besides Names, a second sub-domain as long
\* as a.b.c, a sub-domain of a.b.c, and a domain of another TLD.
FilterNames ==
    << <<"c">>,
       <<"b", Dot, "c">>,
       <<"a", Dot, "b", Dot, "c">>,
       <<"b", Dot, "b", Dot, "c">>,
       <<"a", "a", Dot, "b", Dot, "c">>,
       <<"a", Dot, "a", Dot, "b", Dot, "c">>,
       <<"c", Dot, "d">> >>

\* Block lists of at most n of these names, one order for every multiset.
FilterLists(n) ==
    UNION { { [i \in 1..k |-> FilterNames[ix[i]]] :
                ix \in { f \in [1..k -> 1..Len(FilterNames)] :
                           \A i \in 1..k : \A j \in 1..k : i <= j => f[i] <= f[j] } } :
            k \in 0..n }

InitFilter ==
    /\ blockFile = <<>>
    /\ blackFile = <<>>
    /\ whiteFile = <<>>
    /\ blackErr = FALSE
    /\ whiteErr = FALSE
    /\ mainpc = "readDomains"
    /\ domainsRaw = EmptyMap
    /\ merged = EmptyMap
    /\ tldLocks = EmptyMap
    /\ tldLocksLock = 0
    /\ rwlocks = <<>>
    /\ whitelist = {}
    /\ whitelistLock = 0
    /\ task = <<>>
    /\ fatal = FALSE
    /\ domains = <<>>
    /\ worker = EmptyMap
    /\ closed = FALSE
    /\ collector = "unborn"
    /\ written = {}
    /\ out = <<>>
    /\ numberMinimal = 0
    /\ sufA = <<>>
    /\ sufB = <<>>
    /\ sufRes = NoResult
    /\ fltFile \in FilterLists(MaxFilter)
    /\ fltRun = NoRun

\* The block list is read into partitions, cookDomains and the checkDomain
\* goroutines run on them, and then once more on the partitions of the
\* domains that the first run has sent.
FilterTwice ==
    /\ ~fltRun.done
    /\ LET raw == InsertAll(EmptyMap, fltFile, 1)
       IN \E cooked \in Cooked(raw) :
            \E again \in Cooked(PartitionsOf(Emitted(cooked))) :
               fltRun' = [done |-> TRUE, raw |-> raw, domains |-> cooked,
                          first |-> Emitted(cooked), second |-> Emitted(again)]
    /\ UNCHANGED << inputVars, mainpc, domainsRaw, merged, lockVars, whitelist, task,
                    fatal, filterVars, sufA, sufB, sufRes, fltFile >>

SpecFilter == InitFilter /\ [][FilterTwice]_vars

\* ------------------------------------------------------------- vocabulary

\* The labels of a canonical domain (its name without the leading ".").
Labels(domain) == Split(Tail(domain))

\* The label sequence l ends with all labels of m, in order.
EndsWith(l, m) ==
    /\ Len(m) <= Len(l)
    /\ \A k \in 1..Len(m) : l[Len(l) - Len(m) + k] = m[k]

\* d is e or a descendant of e; d is a proper descendant of e.
DescendantOrSelf(d, e) == EndsWith(Labels(d), Labels(e))
ProperDescendant(d, e) == DescendantOrSelf(d, e) /\ Labels(d) # Labels(e)

\* The domains of the block directives and of the unblock directives written.
MinimalSet == { Canon(out[i].name) : i \in { k \in DOMAIN out : out[k].kind = "block" } }
OverrideOut == { Canon(out[i].name) : i \in { k \in DOMAIN out : out[k].kind = "unblock" } }

\* The entries of the three input lists as the program reads them.
BlockEntries == { Canon(blockFile[i]) : i \in DOMAIN blockFile }
BlackEntries == { Canon(blackFile[i]) : i \in DOMAIN blackFile }
WhiteEntries == { Canon(whiteFile[i]) : i \in DOMAIN whiteFile }

\* applyWhitelist has returned.
Reconciled == mainpc \notin {"readDomains", "applyBlacklist", "applyWhitelist", "wgWait"}

\* cookDomains has been called: the Shadow Filter phase.
Filtering == mainpc \in {"collector", "workers", "wgWait2", "wgCollectWait", "finished"}

\* ------------------------------------------------------------------ claims

\* C1: after the Shadow Filter has finished, no domain sent on the minimal
\* channel is a proper descendant of another domain sent on it.
C1_ShadowFree ==
    mainpc = "finished" =>
        \A d \in MinimalSet : \A e \in MinimalSet : ~ProperDescendant(d, e)

\* C2 as stated: every domain of the block list and the blacklist is in the
\* Minimal Set or has an ancestor in it.
C2_CoverageOfInputs ==
    mainpc = "finished" =>
        \A d \in BlockEntries \cup BlackEntries :
            \E m \in MinimalSet : DescendantOrSelf(d, m)

\* C2 amended: every domain that is in a partition when the Shadow Filter
\* starts (what the whitelist has left of block list and blacklist) is in
\* the Minimal Set or has an ancestor in it.
C2_CoverageOfPartitions ==
    mainpc = "finished" =>
        \A d \in AllDomains(domainsRaw) :
            \E m \in MinimalSet : DescendantOrSelf(d, m)

\* A run has finished in which a domain was dropped as shadowed and is
\* covered by its ancestor.
C2_Witness ==
    /\ mainpc = "finished"
    /\ \E d \in AllDomains(domainsRaw) :
         /\ d \notin MinimalSet
         /\ \E m \in MinimalSet : ProperDescendant(d, m)

\* C3: once applyWhitelist has returned, no domain equal to a whitelist
\* entry or a proper descendant of one is left in a partition, unless it is
\* in the Override Set.
C3_AllowListRemoval ==
    Reconciled =>
        \A e \in WhiteEntries : \A d \in AllDomains(domainsRaw) :
            DescendantOrSelf(d, e) => d \in whitelist

\* The input files name no single-label domain.
TwoLabelInputs ==
    \A line \in Range(blockFile) \cup Range(blackFile) \cup Range(whiteFile) :
        Len(Split(line)) >= 2

\* C1 and C3 for input files without single-label domains (C11): all
\* domains related as ancestor and descendant then share a partition.
ShadowFreeOfTwoLabelInputs == TwoLabelInputs => C1_ShadowFree
RemovalOfTwoLabelInputs == TwoLabelInputs => C3_AllowListRemoval

\* C4: after reconciliation a whitelist entry is in the Override Set iff a
\* proper ancestor of it was in the block set when applyBlacklist returned.
C4_OverrideIff ==
    Reconciled =>
        \A e \in WhiteEntries :
            e \in whitelist <=> \E d \in AllDomains(merged) : ProperDescendant(e, d)


\* applyWhitelistEntry run alone from start to return: what it leaves of
\* the partitions.
SeqEntry(raw, entry) ==
    LET tld == getTLD(entry)
    IN IF tld \notin DOMAIN raw THEN raw
       ELSE [raw EXCEPT ![tld] = { d \in @ : ~HasSuffix(d, entry) }]

RECURSIVE SeqRun(_, _, _)
\* The entries run one after the other in the given order, from its k-th on.
SeqRun(raw, order, k) ==
    IF k > Len(order) THEN raw
    ELSE SeqRun(SeqEntry(raw, Canon(whiteFile[order[k]])), order, k + 1)

\* The orders of n entries.
Orders(n) == { o \in [1..n -> 1..n] : \A i \in 1..n : \A j \in 1..n : i # j => o[i] # o[j] }

\* C5: when applyWhitelist has returned, the partitions are what running the
\* entries one after the other leaves, in whatever order they are run.
C5_AsSequential ==
    Reconciled =>
        \A order \in Orders(Len(whiteFile)) : domainsRaw = SeqRun(merged, order, 1)

\* applyWhitelist has returned after two goroutines of the same TLD have
\* each deleted a domain that the other one's entry does not match.
C5_Witness ==
    /\ Reconciled
    /\ \E i \in DOMAIN task : \E j \in DOMAIN task :
         /\ getTLD(task[i].entry) = getTLD(task[j].entry)
         /\ \E d \in AllDomains(merged) \ AllDomains(domainsRaw) :
                Removes(task[i].entry, d) /\ ~Removes(task[j].entry, d)
         /\ \E d \in AllDomains(merged) \ AllDomains(domainsRaw) :
                Removes(task[j].entry, d) /\ ~Removes(task[i].entry, d)

\* C6: no goroutine ranges over a partition's set while another one, holding
\* the write lock, deletes from that set.
C6_RaceFree ==
    \A i \in DOMAIN task : \A j \in DOMAIN task : ~WritesUnder(i, j)

\* C7: the tests of checkDomain and applyWhitelistEntry on the canonical
\* forms say "suffix" exactly when the label sequence of the one line ends
\* with all labels of the other; checkDomain drops a domain for another one
\* exactly when it is a proper descendant of it.
C7_BoundarySafe ==
    sufRes.tested =>
        /\ sufRes.removes = EndsWith(Split(sufA), Split(sufB))
        /\ sufRes.shadows = EndsWith(Split(sufA), Split(sufB))
        /\ sufRes.dropped = (EndsWith(Split(sufA), Split(sufB)) /\ sufA # sufB)

\* The tests have been applied to two names of two labels each, the one
\* ending with the characters of the other but not with its labels (as
\* evilexample.com and example.com), and none of them matched.
C7_Witness ==
    /\ sufRes.tested
    /\ Len(Split(sufA)) = 2 /\ Len(Split(sufB)) = 2
    /\ \A k \in 1..2 : Split(sufA)[k] # <<>> /\ Split(sufB)[k] # <<>>
    /\ sufA # sufB
    /\ HasSuffix(sufA, sufB)
    /\ ~EndsWith(Split(sufA), Split(sufB))
    /\ ~sufRes.removes /\ ~sufRes.shadows /\ ~sufRes.dropped

\* What C8 says of a state: goroutines of applyWhitelist exist only once the
\* blacklist has been merged, and cookDomains and the checkDomain workers
\* start only when all of them have returned.
C8_Phases ==
    /\ DOMAIN task # {} =>
          /\ mainpc \notin {"readDomains", "applyBlacklist"}
          /\ BlackEntries \subseteq AllDomains(merged)
    /\ (mainpc = "cookDomains" \/ Filtering \/ DOMAIN worker # {}) => TasksDone

\* C8: the phases are ordered, and from the call of cookDomains on neither a
\* partition nor the whitelist map changes.
C8_PhaseOrdering ==
    /\ []C8_Phases
    /\ [][(mainpc = "cookDomains" \/ Filtering) =>
            (domainsRaw' = domainsRaw /\ whitelist' = whitelist)]_vars

\* Workers run after whitelist goroutines have changed partitions and the
\* whitelist map.
C8_Witness ==
    /\ \E d \in DOMAIN worker : worker[d].pc = "send"
    /\ DOMAIN task # {}
    /\ domainsRaw # merged
    /\ whitelist # {}

\* How often a line has been written.
Count(line) == Cardinality({ k \in DOMAIN out : out[k] = line })

\* The domains for which checkDomain reaches the send.
Kept == { d \in DOMAIN worker : ~ScanFrom(worker[d].subdomains, d, 1) }

\* C9: when the run ends, every domain checkDomain decided to send has been
\* written once as a block directive, every domain of the whitelist map
\* once as an unblock directive, and nothing else has been written.
C9_ExactlyOnce ==
    mainpc = "finished" =>
        /\ DOMAIN worker = AllDomains(domainsRaw)
        /\ \A d \in Kept : Count(BlockLine(d)) = 1
        /\ \A d \in whitelist : Count(UnblockLine(d)) = 1
        /\ Len(out) = Cardinality(Kept) + Cardinality(whitelist)
        /\ numberMinimal = Cardinality(Kept)

\* A run has ended whose inputs name a kept domain twice and whose
\* whitelist map is not empty.
C9_Witness ==
    /\ mainpc = "finished"
    /\ whitelist # {}
    /\ \E d \in Kept :
         \/ \E i \in DOMAIN blockFile : \E j \in DOMAIN blackFile :
                Canon(blockFile[i]) = d /\ Canon(blackFile[j]) = d
         \/ \E i \in DOMAIN blockFile : \E j \in DOMAIN blockFile :
                i # j /\ Canon(blockFile[i]) = d /\ Canon(blockFile[j]) = d

\* C10: no block directive is written after an unblock directive, and the
\* collector turns to the whitelist map only when the minimal channel is
\* closed and no worker is left to send.
C10_OverridesLast ==
    /\ \A i \in DOMAIN out : \A j \in DOMAIN out :
          (out[i].kind = "unblock" /\ out[j].kind = "block") => j < i
    /\ collector \in {"whitelist", "done"} => (closed /\ WorkersDone)

\* The run has ended with an unblock directive written after the block
\* directive of one of its ancestors.
C10_Witness ==
    /\ mainpc = "finished"
    /\ \E i \in DOMAIN out : \E j \in DOMAIN out :
         /\ i < j
         /\ out[i].kind = "block"
         /\ out[j].kind = "unblock"
         /\ ProperDescendant(Canon(out[j].name), Canon(out[i].name))

\* The domains the program has accepted: those put into a partition by
\* readDomains and applyBlacklist, and the entries handed to goroutines.
Accepted == AllDomains(merged) \cup { task[i].entry : i \in DOMAIN task }

\* C11: a domain of fewer than two labels is rejected: none is ever in a
\* partition, and none is ever the entry of an applyWhitelistEntry goroutine.
C11_MalformedRejected ==
    /\ \A d \in AllDomains(domainsRaw) : Len(Labels(d)) >= 2
    /\ \A i \in DOMAIN task : Len(Labels(task[i].entry)) >= 2

\* C12: two accepted domains of which one is the other or a descendant of it
\* have the same TLD, and every domain is in the partition of its TLD.
C12_SamePartition ==
    /\ \A d \in Accepted : \A e \in Accepted :
          DescendantOrSelf(d, e) => getTLD(d) = getTLD(e)
    /\ \A k \in DOMAIN domainsRaw : \A d \in domainsRaw[k] : getTLD(d) = k

\* C12 for input files without single-label domains (C11).
SamePartitionOfTwoLabelInputs == TwoLabelInputs => C12_SamePartition

\* The goroutine has left the section guarded by tldLocksLock with a lock.
HasLock(i) ==
    task[i].pc \in {"rlock", "subdomains", "range", "lock", "delete",
                    "whitelistLock", "whitelist"}

\* What C13 says of a state: as many lock objects have been created as there
\* are keys in tldLocks, and every goroutine that has obtained a lock holds
\* the one tldLocks has for its TLD.
C13_Locks ==
    /\ Len(rwlocks) = Cardinality(DOMAIN tldLocks)
    /\ \A i \in DOMAIN task :
          HasLock(i) => /\ getTLD(task[i].entry) \in DOMAIN tldLocks
                        /\ task[i].lock = tldLocks[getTLD(task[i].entry)]

\* C13: one lock object per TLD, and a lock stored in tldLocks is never
\* replaced or removed.
C13_UniqueLock ==
    /\ []C13_Locks
    /\ [][\A k \in DOMAIN tldLocks :
             k \in DOMAIN tldLocks' /\ tldLocks'[k] = tldLocks[k]]_vars

\* Two goroutines whose entries differ and share a TLD work with the same
\* lock object at the same time.
C13_Witness ==
    \E i \in DOMAIN task : \E j \in DOMAIN task :
        /\ task[i].entry # task[j].entry
        /\ getTLD(task[i].entry) = getTLD(task[j].entry)
        /\ HasLock(i) /\ HasLock(j)
        /\ task[i].lock = task[j].lock
        /\ Len(rwlocks) = 1

\* The locks goroutine i holds.
Held(i) ==
    (IF tldLocksLock = i THEN {"tldLocksLock"} ELSE {})
    \cup (IF whitelistLock = i THEN {"whitelistLock"} ELSE {})
    \cup { k \in DOMAIN rwlocks : rwlocks[k].w = i \/ i \in rwlocks[k].r }

\* The lock goroutine i is waiting for, if any.
WaitsForLock(i) == task[i].pc \in {"start", "rlock", "lock", "whitelistLock"}

\* What C14 says of a state: no goroutine holds two locks or waits for a lock
\* while it holds one, and once the minimal channel is closed no checkDomain
\* goroutine is left that has yet to send or to decide.
C14_Safe ==
    /\ \A i \in DOMAIN task :
          /\ Cardinality(Held(i)) <= 1
          /\ WaitsForLock(i) => Held(i) = {}
    /\ closed => WorkersDone

\* C14: under a fair scheduler every run ends: all goroutines return, the
\* collector drains the channel and completes, and main returns.
C14_Terminates ==
    /\ []C14_Safe
    /\ <>(mainpc = "finished" /\ TasksDone /\ WorkersDone /\ collector = "done")

\* C14 for the runs the Go runtime does not abort because of the data race
\* of C6.
TerminatesUnlessAborted ==
    /\ []C14_Safe
    /\ <>(fatal \/ (mainpc = "finished" /\ TasksDone /\ WorkersDone
                      /\ collector = "done"))

\* The whitelist entry has no partition, or its partition held neither the
\* entry, nor a descendant, nor an ancestor of it when applyBlacklist returned.
NoOpEntry(entry) ==
    \/ getTLD(entry) \notin DOMAIN merged
    \/ \A d \in merged[getTLD(entry)] :
          ~DescendantOrSelf(d, entry) /\ ~ProperDescendant(entry, d)

\* What C15 says of a state: a goroutine with such an entry never comes to
\* delete or to mark its entry, the entry is not in the whitelist map, and no
\* partition has been created since applyBlacklist returned.
C15_Unmarked ==
    /\ \A i \in DOMAIN task :
          NoOpEntry(task[i].entry) =>
             /\ task[i].entry \notin whitelist
             /\ ~task[i].needsOnWhitelist
             /\ task[i].pc \notin {"lock", "delete", "whitelistLock", "whitelist"}
    /\ DOMAIN task # {} => DOMAIN domainsRaw = DOMAIN merged

\* C15: no step of a goroutine with such an entry changes a partition or the
\* whitelist map.
C15_NoOp ==
    /\ []C15_Unmarked
    /\ [][\A i \in DOMAIN task :
             (NoOpEntry(task[i].entry) /\ i \in DOMAIN task' /\ task'[i] # task[i])
                => (domainsRaw' = domainsRaw /\ whitelist' = whitelist)]_vars

\* applyWhitelist has returned after a goroutine has scanned a partition
\* that holds a domain whose name ends with the characters, but not with the
\* labels, of the goroutine's entry, and all partitions are as they were.
C15_Witness ==
    /\ Reconciled
    /\ domainsRaw = merged
    /\ \E i \in DOMAIN task :
         /\ task[i].pc = "done"
         /\ NoOpEntry(task[i].entry)
         /\ getTLD(task[i].entry) \in DOMAIN merged
         /\ \E d \in merged[getTLD(task[i].entry)] :
                HasSuffix(Tail(d), Tail(task[i].entry))

\* applyWhitelistEntry run alone from start to return: whether it puts its
\* entry on the whitelist.
SeqMarks(raw, entry) ==
    /\ getTLD(entry) \in DOMAIN raw
    /\ \E d \in raw[getTLD(entry)] : ~Removes(entry, d) /\ Shadows(entry, d)

RECURSIVE SeqOverrides(_, _, _, _)
\* The whitelist map that is left when the entries are run one after the
\* other in the given order, from its k-th on.
SeqOverrides(raw, order, k, marked) ==
    IF k > Len(order) THEN marked
    ELSE LET entry == Canon(whiteFile[order[k]])
         IN SeqOverrides(SeqEntry(raw, entry), order, k + 1,
                         IF SeqMarks(raw, entry) THEN marked \cup {entry} ELSE marked)

\* C16: when applyWhitelist has returned, the whitelist map is what running
\* the entries one after the other leaves, in whatever order they are run.
C16_OrderIndependent ==
    Reconciled =>
        \A order \in Orders(Len(whiteFile)) :
            whitelist = SeqOverrides(merged, order, 1, {})

\* C17: the filter run on the domains it has sent sends the same domains.
C17_Idempotent == fltRun.done => fltRun.second = fltRun.first

\* The first run has dropped one domain and sent three others of one
\* partition, so that the second run scans a slice of three.
C17_Witness ==
    /\ fltRun.done
    /\ fltRun.first # AllDomains(fltRun.raw)
    /\ \E k \in DOMAIN fltRun.raw : Cardinality(fltRun.raw[k] \cap fltRun.first) = 3

\* C18: checkDomain on the sorted slice sends a domain exactly when no other
\* domain of its partition is a suffix of it.
C18_EarlyExitIsFullScan ==
    fltRun.done =>
        \A k \in DOMAIN fltRun.raw : \A d \in fltRun.raw[k] :
            d \in fltRun.first <=>
                ~\E e \in fltRun.raw[k] : e # d /\ HasSuffix(d, e)

\* In one slice a domain is sent with a longer domain behind it (the loop
\* breaks), a domain is dropped, and two domains have the same length.
C18_Witness ==
    /\ fltRun.done
    /\ \E p \in DOMAIN fltRun.domains :
         LET s == fltRun.domains[p]
         IN /\ \E i \in DOMAIN s : \E j \in DOMAIN s :
                  i < j /\ Len(s[i]) < Len(s[j]) /\ s[i] \in fltRun.first
            /\ \E i \in DOMAIN s : s[i] \notin fltRun.first
            /\ \E i \in DOMAIN s : \E j \in DOMAIN s :
                  i # j /\ Len(s[i]) = Len(s[j])

\* The domains goroutine i has removed so far.
RemovedBy(i) == { d \in task[i].seen : DescendantOrSelf(d, task[i].entry) }

\* C19 as stated: a step marks the entry of a goroutine only if the
\* goroutine has not removed a domain before.
C19_NoMarkAfterRemoval ==
    [][\A i \in DOMAIN task :
          (i \in DOMAIN task' /\ ~task[i].needsOnWhitelist
             /\ task'[i].needsOnWhitelist) => RemovedBy(i) = {}]_vars

\* C19 amended: a step that scans a proper ancestor of the entry leaves the
\* entry marked, whether or not the goroutine has removed a domain before,
\* and only such a step marks an entry.
C19_MarkAtAncestor ==
    [][\A i \in DOMAIN task :
          i \in DOMAIN task' =>
             /\ \A d \in task'[i].seen \ task[i].seen :
                   ProperDescendant(task[i].entry, d) => task'[i].needsOnWhitelist
             /\ (~task[i].needsOnWhitelist /\ task'[i].needsOnWhitelist) =>
                   \E d \in task'[i].seen \ task[i].seen :
                       ProperDescendant(task[i].entry, d)]_vars

\* A goroutine that has removed a domain has its entry marked.
C19_Witness ==
    \E i \in DOMAIN task :
        /\ task[i].needsOnWhitelist
        /\ RemovedBy(i) # {}
        /\ RemovedBy(i) \cap AllDomains(domainsRaw) = {}

\* C20: when a list file is there but cannot be opened, the run stops where
\* applyBlacklist or applyWhitelist returns the error: no goroutine works on
\* a list read after the failure, cookDomains is never called, and the
\* output file is neither created nor written.
C20_AbortOnListError ==
    /\ blackErr => DOMAIN task = {}
    /\ (blackErr \/ whiteErr) =>
          /\ ~Filtering
          /\ collector = "unborn"
          /\ out = <<>>

=============================================================================
